---- MODULE Spec2Model ----
(***************************************************************************)
(* Storage layer of the personal finance tracker (src/database.py): the    *)
(* two SQLite tables, the start-up, the four writes and the queries; and   *)
(* the transactions tab of the window (src/app.py): the Add Transaction    *)
(* and Delete Selected handlers with the conversions they apply.           *)
(*                                                                         *)
(* TEXT values are TLA+ strings compared as SQLite's BINARY collation      *)
(* compares them (byte by byte, a proper prefix first).  REAL values are   *)
(* binary floating point numbers: the model keeps the rounding of every    *)
(* addition and reduces the 53 bit significand to MantissaBits bits, all   *)
(* values being whole numbers of the smallest unit.                        *)
(***************************************************************************)
EXTENDS Integers, Sequences, FiniteSets, TLC

VARIABLES
    transactions,  \* rows of table transactions
    txSeq,         \* sqlite_sequence entry of transactions
    budgets,       \* rows of table budgets
    bSeq,          \* sqlite_sequence entry of budgets
    issuedTx,      \* history: every transaction id assigned so far
    issuedB,       \* history: every budget id assigned so far
    last,          \* the latest call: name, arguments, lastrowid, rowcount, raised
    replacedB,     \* history: every budget id whose row INSERT OR REPLACE removed
    listed,        \* history: what get_transactions returned before the latest add_transaction
    schema,        \* the tables the store file holds (sqlite_master)
    ui             \* the FinanceApp window: entries at the latest click, treeview,
                   \* summary labels, latest message box

vars == <<transactions, txSeq, budgets, bSeq, issuedTx, issuedB, replacedB, last, listed, schema, ui>>

(* ----------------------------- bounds ---------------------------------- *)
MaxTx == 3
MaxBudget == 2
MantissaBits == 2

(* ------------------------------ TEXT ----------------------------------- *)
\* The characters the inputs use, in byte order.
Alphabet == " -0123456789ABCDEFGHIJKLMNOPQRSTUVWXYZabcdefghijklmnopqrstuvwxyz"

\* the place of every character in byte order
Places ==
    [ch \in {SubSeq(Alphabet, k, k) : k \in 1..Len(Alphabet)} |->
        CHOOSE k \in 1..Len(Alphabet) : SubSeq(Alphabet, k, k) = ch]

Ord(ch) == Places[ch]

Min(a, b) == IF a < b THEN a ELSE b

Max(a, b) == IF a < b THEN b ELSE a

RECURSIVE TextLessFrom(_, _, _)
TextLessFrom(s, t, i) ==
    IF i > Len(s) THEN i <= Len(t)
    ELSE IF i > Len(t) THEN FALSE
    ELSE IF SubSeq(s, i, i) = SubSeq(t, i, i) THEN TextLessFrom(s, t, i + 1)
    ELSE Ord(SubSeq(s, i, i)) < Ord(SubSeq(t, i, i))

\* s < t under the BINARY collation
TextLess(s, t) == TextLessFrom(s, t, 1)

\* substr(s, 1, n)
MonthLen == 7

\* Substr1, had the query grouped by the whole date
Substr1_Whole(s, n) == s

Substr1(s, n) == SubSeq(s, 1, Min(n, Len(s)))

(* ------------------------------ REAL ----------------------------------- *)
RECURSIVE Pow2(_)
Pow2(n) == IF n = 0 THEN 1 ELSE 2 * Pow2(n - 1)

RECURSIVE Exponent(_, _)
\* least e with x < 2^(MantissaBits + e), for x >= 0
Exponent(x, e) == IF x < Pow2(MantissaBits + e) THEN e ELSE Exponent(x, e + 1)

\* round to nearest, ties to even, of the exact value x >= 0
RoundPos(x) ==
    LET e == Exponent(x, 0)
        u == Pow2(e)
        q == x \div u
        r == x % u
    IN  IF r = 0 THEN x
        ELSE IF 2 * r > u \/ (2 * r = u /\ q % 2 = 1) THEN (q + 1) * u
        ELSE q * u

FRound(x) == IF x < 0 THEN 0 - RoundPos(0 - x) ELSE RoundPos(x)

FAdd(a, b) == FRound(a + b)

\* FSub, had the operands been exchanged
FSub_Swapped(a, b) == FRound(b - a)

FSub(a, b) == FRound(a - b)

(* --------------------------- table access ------------------------------ *)
RECURSIVE MaxId(_)
MaxId(table) ==
    IF table = {} THEN 0
    ELSE LET r == CHOOSE x \in table : TRUE
         IN  Max(r.id, MaxId(table \ {r}))

\* NextRowid, had the column been INTEGER PRIMARY KEY without AUTOINCREMENT
NextRowid_MaxPlusOne(table, seq) == MaxId(table) + 1

\* INTEGER PRIMARY KEY AUTOINCREMENT: one more than the largest rowid the
\* table ever held (sqlite_sequence), never a rowid used before.
NextRowid(table, seq) == Max(seq, MaxId(table)) + 1

RECURSIVE Scan(_)
\* the rows of a table in rowid order, as a full table scan visits them
Scan(table) ==
    IF table = {} THEN <<>>
    ELSE LET r == CHOOSE x \in table : \A y \in table : x.id <= y.id
         IN  <<r>> \o Scan(table \ {r})

\* Before, had the query read ORDER BY date DESC alone
Before_DateOnly(clause, x, y) ==
    CASE clause = "date DESC, id DESC" -> TextLess(y.date, x.date)
      [] clause = "category" -> TextLess(x.category, y.category)
      [] clause = "SUM(amount) DESC" -> x.total > y.total
      [] clause = "month" -> TextLess(x.month, y.month)

\* x sorts before y under the ORDER BY clause of the query
Before(clause, x, y) ==
    CASE clause = "date DESC, id DESC" ->
            \/ TextLess(y.date, x.date)
            \/ (x.date = y.date /\ x.id > y.id)
      [] clause = "category" -> TextLess(x.category, y.category)
      [] clause = "SUM(amount) DESC" -> x.total > y.total
      [] clause = "month" -> TextLess(x.month, y.month)

RECURSIVE InsertSorted(_, _, _)
InsertSorted(x, s, clause) ==
    IF s = <<>> THEN <<x>>
    ELSE IF Before(clause, x, Head(s)) THEN <<x>> \o s
    ELSE <<Head(s)>> \o InsertSorted(x, Tail(s), clause)

RECURSIVE OrderBy(_, _)
\* ORDER BY: a stable sort of the rows in the order they are produced
OrderBy(s, clause) ==
    IF s = <<>> THEN <<>>
    ELSE InsertSorted(s[Len(s)], OrderBy(SubSeq(s, 1, Len(s) - 1), clause), clause)

(* ----------------------------- queries --------------------------------- *)
RECURSIVE SortedTexts(_)
\* the distinct keys of a GROUP BY, in the order the groups are produced
SortedTexts(S) ==
    IF S = {} THEN <<>>
    ELSE LET m == CHOOSE x \in S : \A y \in S \ {x} : TextLess(x, y)
         IN  <<m>> \o SortedTexts(S \ {m})

RECURSIVE SumFrom(_, _)
SumFrom(acc, amounts) ==
    IF amounts = <<>> THEN acc
    ELSE SumFrom(FAdd(acc, Head(amounts)), Tail(amounts))

\* SUM(...) over the selected rows: NULL when there is no row
SqlSum(amounts) ==
    IF amounts = <<>> THEN [null |-> TRUE, val |-> 0]
    ELSE [null |-> FALSE, val |-> SumFrom(0, amounts)]

\* Python's  x or 0.0
OrZero(x) == IF x.null \/ x.val = 0 THEN 0 ELSE x.val

AmountOf(rows) == [i \in 1..Len(rows) |-> rows[i].amount]

\* CASE WHEN type = t THEN amount ELSE 0 END
CaseAmountOf(rows, t) ==
    [i \in 1..Len(rows) |-> IF rows[i].type = t THEN rows[i].amount ELSE 0]

\* WhereType, had the WHERE clause been left out
WhereType_Any(rows, t) == rows

\* WHERE type = t
WhereType(rows, t) == SelectSeq(rows, LAMBDA r : r.type = t)

get_transactions(self) == OrderBy(Scan(self.transactions), "date DESC, id DESC")

get_budgets(self) == OrderBy(Scan(self.budgets), "category")

get_summary(self) ==
    LET rows == Scan(self.transactions)
        total_income ==
            OrZero(SqlSum(AmountOf(WhereType(rows, "Income"))))
        total_expense ==
            OrZero(SqlSum(AmountOf(WhereType(rows, "Expense"))))
    IN  <<total_income, total_expense, FSub(total_income, total_expense)>>

get_expenses_by_category(self) ==
    LET rows == WhereType(Scan(self.transactions), "Expense")
        keys == SortedTexts({rows[i].category : i \in 1..Len(rows)})
        groups ==
            [k \in 1..Len(keys) |->
                [category |-> keys[k],
                 total |-> SqlSum(AmountOf(
                     SelectSeq(rows, LAMBDA r : r.category = keys[k]))).val]]
    IN  OrderBy(groups, "SUM(amount) DESC")

get_monthly_summary(self) ==
    LET rows == Scan(self.transactions)
        keys == SortedTexts({Substr1(rows[i].date, MonthLen) : i \in 1..Len(rows)})
        groups ==
            [k \in 1..Len(keys) |->
                LET members ==
                        SelectSeq(rows, LAMBDA r : Substr1(r.date, MonthLen) = keys[k])
                IN  [month |-> keys[k],
                     income_total |-> SqlSum(CaseAmountOf(members, "Income")).val,
                     expense_total |-> SqlSum(CaseAmountOf(members, "Expense")).val]]
    IN  OrderBy(groups, "month")

(* ------------------------------ state ---------------------------------- *)
Call(op, args, rowid, rowcount) ==
    [op |-> op, args |-> args, rowid |-> rowid, rowcount |-> rowcount, raised |-> FALSE]

\* the FinanceApp window
Window(entries, tree_transactions, var_totals, messagebox) ==
    [entries |-> entries, tree_transactions |-> tree_transactions,
     var_totals |-> var_totals, messagebox |-> messagebox]

\* the Database object: the connection to the two tables
Self == [transactions |-> transactions, budgets |-> budgets]

SelfAfter == [transactions |-> transactions', budgets |-> budgets']

Init ==
    /\ transactions = {}
    /\ txSeq = 0
    /\ budgets = {}
    /\ bSeq = 0
    /\ issuedTx = {}
    /\ issuedB = {}
    /\ replacedB = {}
    /\ last = Call("none", <<>>, 0, 0)
    /\ listed = <<>>
    /\ schema = {"transactions", "budgets"}
    /\ ui = Window(<<>>, <<>>, <<"0.00", "0.00", "0.00">>, <<>>)

(* ------------------------------ start up ------------------------------- *)
\* CreateTableIfNotExists, had the statement replaced the table
CreateTableIfNotExists_Replace(name, rows) == {}

\* CREATE TABLE IF NOT EXISTS name: the rows of the table afterwards
CreateTableIfNotExists(name, rows) == IF name \in schema THEN rows ELSE {}

\* Database.__init__ on the store file as it is: connect, then create_tables
create_tables ==
    /\ transactions' = CreateTableIfNotExists("transactions", transactions)
    /\ budgets' = CreateTableIfNotExists("budgets", budgets)
    /\ schema' = schema \cup {"transactions", "budgets"}
    /\ last' = Call("create_tables", <<>>, 0, 0)
    /\ listed' = <<>>
    /\ UNCHANGED <<txSeq, bSeq, issuedTx, issuedB, replacedB>>

(* ------------------------------ writes --------------------------------- *)
InsertTransaction(table, id, date, type_, category, description, amount) ==
    table \cup {[id |-> id, date |-> date, type |-> type_, category |-> category,
                 description |-> description, amount |-> amount]}

add_transaction(date, type_, category, description, amount) ==
    /\ txSeq < MaxTx
    /\ LET id == NextRowid(transactions, txSeq)
       IN  /\ transactions' =
                  InsertTransaction(transactions, id, date, type_, category,
                                    description, amount)
           /\ txSeq' = Max(txSeq, id)
           /\ issuedTx' = issuedTx \cup {id}
           /\ last' = Call("add_transaction",
                           <<date, type_, category, description, amount>>, id, 1)
    /\ listed' = get_transactions(Self)
    /\ UNCHANGED <<budgets, bSeq, issuedB, schema, replacedB>>

\* DeleteWhereId, had the statement read WHERE id <= ?
DeleteWhereId_UpTo(table, id) == {r \in table : r.id > id}

\* DeleteWhereId, had the statement read WHERE id <> ?
DeleteWhereId_Not(table, id) == {r \in table : r.id = id}

DeleteWhereId(table, id) == {r \in table : r.id # id}

delete_transaction(trans_id) ==
    /\ transactions' = DeleteWhereId(transactions, trans_id)
    /\ last' = Call("delete_transaction", <<trans_id>>, 0,
                    Cardinality(transactions) - Cardinality(transactions'))
    /\ listed' = <<>>
    /\ UNCHANGED <<txSeq, budgets, bSeq, issuedTx, issuedB, schema, replacedB>>

\* ReplaceInto, had the table had no UNIQUE category and the statement no OR REPLACE
ReplaceInto_PlainInsert(table, id, category, amount) ==
    table \cup {[id |-> id, category |-> category, amount |-> amount]}

\* ReplaceInto, had the statement been an update of the row that clashes
ReplaceInto_KeepId(table, id, category, amount) ==
    IF \E b \in table : b.category = category
    THEN {IF b.category = category THEN [b EXCEPT !.amount = amount] ELSE b : b \in table}
    ELSE table \cup {[id |-> id, category |-> category, amount |-> amount]}

\* INSERT OR REPLACE: the rows that clash on the UNIQUE category are deleted,
\* then the new row is inserted.
ReplaceInto(table, id, category, amount) ==
    {b \in table : b.category # category} \cup
        {[id |-> id, category |-> category, amount |-> amount]}

add_budget(category, amount) ==
    /\ bSeq < MaxBudget
    /\ LET id == NextRowid(budgets, bSeq)
       IN  /\ budgets' = ReplaceInto(budgets, id, category, amount)
           /\ bSeq' = Max(bSeq, id)
           /\ issuedB' = issuedB \cup {id}
           /\ last' = Call("add_budget", <<category, amount>>, id, 1)
    /\ replacedB' = replacedB \cup ({b.id : b \in budgets} \ {b.id : b \in budgets'})
    /\ listed' = <<>>
    /\ UNCHANGED <<transactions, txSeq, issuedTx, schema>>

\* delete_budget, had the deletion cascaded to the transactions of the category
delete_budget_cascade(budget_id) ==
    /\ budgets' = {b \in budgets : b.id # budget_id}
    /\ transactions' =
          {r \in transactions :
              \A b \in budgets : b.id = budget_id => b.category # r.category}
    /\ last' = Call("delete_budget", <<budget_id>>, 0,
                    Cardinality(budgets) - Cardinality(budgets'))
    /\ listed' = <<>>
    /\ UNCHANGED <<txSeq, bSeq, issuedTx, issuedB, schema, replacedB>>

delete_budget(budget_id) ==
    /\ budgets' = DeleteWhereId(budgets, budget_id)
    /\ last' = Call("delete_budget", <<budget_id>>, 0,
                    Cardinality(budgets) - Cardinality(budgets'))
    /\ listed' = <<>>
    /\ UNCHANGED <<transactions, txSeq, bSeq, issuedTx, issuedB, schema, replacedB>>

(* ------------------- what the handlers do to text ----------------------- *)
Digits == {SubSeq("0123456789", k, k) : k \in 1..10}

\* s[i-1:j] of Python, for i >= 1: the characters of s from place i to place j
Slice(s, i, j) == IF i > Min(j, Len(s)) THEN "" ELSE SubSeq(s, i, Min(j, Len(s)))

\* the character of s at place i, "" outside s
At(s, i) == IF i >= 1 THEN Slice(s, i, i) ELSE ""

RECURSIVE LStrip(_)
LStrip(s) == IF At(s, 1) = " " THEN LStrip(Slice(s, 2, Len(s))) ELSE s

RECURSIVE RStrip(_)
RStrip(s) == IF At(s, Len(s)) = " " THEN RStrip(Slice(s, 1, Len(s) - 1)) ELSE s

\* str.strip()
Strip(s) == RStrip(LStrip(s))

RECURSIVE ParseInt(_)
\* the number a string of digits denotes
ParseInt(s) ==
    IF s = "" THEN 0
    ELSE 10 * ParseInt(Slice(s, 1, Len(s) - 1)) + (Ord(At(s, Len(s))) - Ord("0"))

AllDigits(s) == Len(s) > 0 /\ \A i \in 1..Len(s) : At(s, i) \in Digits

\* %Y is \d\d\d\d: the place after the match at i, 0 if there is none
MatchY(s, i) == IF AllDigits(Slice(s, i, i + 3)) /\ i + 3 <= Len(s) THEN i + 4 ELSE 0

\* %m is 1[0-2]|0[1-9]|[1-9]: the places after the matches at i, in the
\* order the alternatives are tried
MatchM(s, i) ==
    (IF At(s, i) = "1" /\ At(s, i + 1) \in {"0", "1", "2"} THEN <<i + 2>> ELSE <<>>)
    \o (IF At(s, i) = "0" /\ At(s, i + 1) \in Digits \ {"0"} THEN <<i + 2>> ELSE <<>>)
    \o (IF At(s, i) \in Digits \ {"0"} THEN <<i + 1>> ELSE <<>>)

\* %d is 3[0-1]|[1-2]\d|0[1-9]|[1-9]| [1-9]
MatchD(s, i) ==
    (IF At(s, i) = "3" /\ At(s, i + 1) \in {"0", "1"} THEN <<i + 2>> ELSE <<>>)
    \o (IF At(s, i) \in {"1", "2"} /\ At(s, i + 1) \in Digits THEN <<i + 2>> ELSE <<>>)
    \o (IF At(s, i) = "0" /\ At(s, i + 1) \in Digits \ {"0"} THEN <<i + 2>> ELSE <<>>)
    \o (IF At(s, i) \in Digits \ {"0"} THEN <<i + 1>> ELSE <<>>)
    \o (IF At(s, i) = " " /\ At(s, i + 1) \in Digits \ {"0"} THEN <<i + 2>> ELSE <<>>)

\* the first way the pattern of "%Y-%m-%d" matches at the start of s:
\* <<place after %Y, place after %m, place after %d>>, <<>> if none
MatchFormat(s) ==
    LET y == MatchY(s, 1)
        ms == IF y = 0 \/ At(s, y) # "-" THEN <<>> ELSE MatchM(s, y + 1)
        fits == {k \in 1..Len(ms) : At(s, ms[k]) = "-" /\ MatchD(s, ms[k] + 1) # <<>>}
    IN  IF fits = {} THEN <<>>
        ELSE LET k == CHOOSE k \in fits : \A j \in fits : k <= j
             IN  <<y, ms[k], MatchD(s, ms[k] + 1)[1]>>

IsLeap(year) == year % 4 = 0 /\ (year % 100 # 0 \/ year % 400 = 0)

DaysInMonth(year, month) ==
    IF month = 2 THEN (IF IsLeap(year) THEN 29 ELSE 28)
    ELSE IF month \in {4, 6, 9, 11} THEN 30 ELSE 31

\* datetime.strptime(date_str, "%Y-%m-%d"): the date, or ValueError
Strptime(date_str) ==
    LET found == MatchFormat(date_str)
    IN  IF found = <<>> THEN [raised |-> "ValueError"]
        ELSE IF found[3] # Len(date_str) + 1 THEN [raised |-> "ValueError"]
        ELSE LET year == ParseInt(Slice(date_str, 1, found[1] - 1))
                 month == ParseInt(Slice(date_str, found[1] + 1, found[2] - 1))
                 day == ParseInt(LStrip(Slice(date_str, found[2] + 1, found[3] - 1)))
             IN  IF year < 1 \/ day > DaysInMonth(year, month)
                 THEN [raised |-> "ValueError"]
                 ELSE [raised |-> "", year |-> year, month |-> month, day |-> day]

\* float(amount_str) on the literals the inputs use: nan, and a whole
\* number of units with an optional sign; anything else is ValueError
Float(amount_str) ==
    LET s == Strip(amount_str)
        sign == IF At(s, 1) \in {"-", "+"} THEN At(s, 1) ELSE ""
        digits == Slice(s, Len(sign) + 1, Len(s))
    IN  IF s = "nan" THEN [raised |-> "", nan |-> TRUE, val |-> 0]
        ELSE IF ~AllDigits(digits) THEN [raised |-> "ValueError", nan |-> FALSE, val |-> 0]
        ELSE [raised |-> "", nan |-> FALSE,
              val |-> IF sign = "-" THEN 0 - FRound(ParseInt(digits)) ELSE FRound(ParseInt(digits))]

\* f"{x:.2f}" of a whole number of units
Format2f(x) == ToString(x) \o ".00"

(* ---------------------------- categories ------------------------------- *)
Uppers == "ABCDEFGHIJKLMNOPQRSTUVWXYZ"
Lowers == "abcdefghijklmnopqrstuvwxyz"

\* the lower-case form of every character
LowerChars ==
    [ch \in DOMAIN Places |->
        IF \E k \in 1..Len(Uppers) : SubSeq(Uppers, k, k) = ch
        THEN LET k == CHOOSE k \in 1..Len(Uppers) : SubSeq(Uppers, k, k) = ch
             IN  SubSeq(Lowers, k, k)
        ELSE ch]

LowerChar(ch) == LowerChars[ch]

RECURSIVE Lower(_)
\* str.lower()
Lower(s) == IF s = "" THEN "" ELSE LowerChar(At(s, 1)) \o Lower(Slice(s, 2, Len(s)))

\* Truthy, had the comprehension no condition
Truthy_Any(c) == TRUE

\* if c: a string is true unless it is empty
Truthy(c) == c # ""

\* the orders in which a Python set of strings may be iterated: any
SetOrders(S) ==
    {order \in [1..Cardinality(S) -> S] :
        \A i, j \in 1..Cardinality(S) : i # j => order[i] # order[j]}

RECURSIVE InsertByLower(_, _)
\* c put into the list s after every element whose key is not greater
InsertByLower(s, c) ==
    IF s = <<>> THEN <<c>>
    ELSE IF TextLess(Lower(c), Lower(s[Len(s)]))
         THEN Append(InsertByLower(SubSeq(s, 1, Len(s) - 1), c), s[Len(s)])
         ELSE Append(s, c)

RECURSIVE SortedByLower(_)
\* sorted(order, key=lambda s: s.lower()): a stable sort
SortedByLower(order) ==
    IF order = <<>> THEN <<>>
    ELSE InsertByLower(SortedByLower(SubSeq(order, 1, Len(order) - 1)),
                       order[Len(order)])

\* the lists get_all_categories may return: one for every iteration order of
\* the set it sorts
get_all_categories(self) ==
    LET trans_cats == {row.category : row \in self.transactions}
        budget_cats == {row.category : row \in self.budgets}
        categories == {c \in trans_cats \cup budget_cats : Truthy(c)}
    IN  {SortedByLower(order) : order \in SetOrders(categories)}

(* ------------------------- presentation layer -------------------------- *)
\* everything but the window
dbvars ==
    <<transactions, txSeq, budgets, bSeq, issuedTx, issuedB, replacedB, last, listed, schema>>

\* the message boxes: the latest dialog shown
showerror(title, message) == <<"showerror", title, message>>

showinfo(title, message) == <<"showinfo", title, message>>

askyesno(title, message, answer) == <<"askyesno", title, message, answer>>

\* refresh_transactions: the rows of the treeview
refresh_transactions(self) ==
    LET rows == get_transactions(self)
    IN  [k \in 1..Len(rows) |->
            <<rows[k].id, rows[k].date, rows[k].type, rows[k].category,
              rows[k].description, Format2f(rows[k].amount)>>]

\* refresh_summary: the three labels of the summary tab
refresh_summary(self) ==
    LET totals == get_summary(self)
    IN  <<Format2f(totals[1]), Format2f(totals[2]), Format2f(totals[3])>>

\* Database.add_transaction called with NaN: sqlite3 binds NaN as NULL, the
\* NOT NULL constraint of column amount refuses the row, IntegrityError
add_transaction_NULL(date, type_, category, description) ==
    /\ last' = [Call("add_transaction", <<date, type_, category, description>>, 0, 0)
                    EXCEPT !.raised = TRUE]
    /\ UNCHANGED <<transactions, txSeq, budgets, bSeq, issuedTx, issuedB, listed, schema, replacedB>>

\* FinanceApp.add_transaction, the Add Transaction button
FinanceApp_add_transaction(entry_date, combo_type, entry_category, entry_description, entry_amount) ==
    LET date_str == Strip(entry_date)
        type_ == combo_type
        category == Strip(entry_category)
        description == Strip(entry_description)
        amount_str == Strip(entry_amount)
        amount == Float(amount_str)
        entries == <<entry_date, combo_type, entry_category, entry_description,
                     entry_amount>>
        InputError(message) ==
            /\ ui' = [ui EXCEPT !.entries = entries,
                                !.messagebox = showerror("Input Error", message)]
            /\ UNCHANGED dbvars
    IN  IF date_str = "" THEN InputError("Date is required.")
        ELSE IF Strptime(date_str).raised # ""
        THEN InputError("Date must be in YYYY-MM-DD format.")
        ELSE IF category = "" THEN InputError("Category is required.")
        ELSE IF amount_str = "" THEN InputError("Amount is required.")
        ELSE IF amount.raised # "" \/ (~amount.nan /\ amount.val <= 0)
        THEN InputError("Amount must be a positive number.")
        ELSE IF amount.nan
        THEN /\ add_transaction_NULL(date_str, type_, category, description)
             /\ ui' = [ui EXCEPT !.entries = entries,
                                 !.messagebox = showerror("Database Error",
                                     "Failed to add transaction: NOT NULL constraint failed: transactions.amount")]
        ELSE /\ add_transaction(date_str, type_, category, description, amount.val)
             /\ ui' = Window(entries, refresh_transactions(SelfAfter),
                             refresh_summary(SelfAfter),
                             showinfo("Success", "Transaction added successfully."))

\* FinanceApp.delete_selected_transaction, the Delete Selected button, with
\* row number selected of the treeview selected (0: none)
delete_selected_transaction(selected, confirm) ==
    IF selected = 0
    THEN /\ ui' = [ui EXCEPT !.messagebox = <<"showwarning", "Selection Error",
                                 "Please select a transaction to delete.">>]
         /\ UNCHANGED dbvars
    ELSE /\ selected \in 1..Len(ui.tree_transactions)
         /\ LET trans_id == ui.tree_transactions[selected][1]
                asked == askyesno("Confirm Delete",
                             "Are you sure you want to delete this transaction?",
                             confirm)
            IN  IF confirm
                THEN /\ delete_transaction(trans_id)
                     /\ ui' = [ui EXCEPT !.tree_transactions = refresh_transactions(SelfAfter),
                                         !.var_totals = refresh_summary(SelfAfter),
                                         !.messagebox = asked]
                ELSE /\ ui' = [ui EXCEPT !.messagebox = asked]
                     /\ UNCHANGED dbvars

(* ------------------------------ inputs --------------------------------- *)
Dates == {"2024-01-15", "2024-01-28", "2024-03-01"}
Types == {"Income", "Expense"}
Categories == {"Food", "food"}
Amounts == {0, 1, 2, 3}
TransIds == 1..(MaxTx + 1)

BudgetCategories == {"Food", "Rent"}
BudgetAmounts == {1, 2}
BudgetIds == 1..(MaxBudget + 1)

TransactionCategories == {"food", "Food", ""}

\* what the user types into the form
EntryDates == {"2024-01-15", "2024-1-5", "2024-13-01", " "}
EntryCategories == {" Food ", ""}
EntryAmounts == {"", "abc", "0", "-1", "2", "nan"}

(* --------------------------- specifications ---------------------------- *)
\* Transactions alone, the dates and the kinds varying: listing and months.
NextOrder ==
    \/ \E date \in Dates, type_ \in Types, amount \in {1, 2} :
          add_transaction(date, type_, "Food", "lunch", amount) /\ UNCHANGED ui
    \/ \E trans_id \in TransIds : delete_transaction(trans_id) /\ UNCHANGED ui

SpecOrder == Init /\ [][NextOrder]_vars

\* Transactions alone, the kinds, categories and amounts varying: the sums.
NextSum ==
    \/ \E type_ \in Types, category \in Categories, amount \in Amounts :
          add_transaction("2024-01-15", type_, category, "", amount) /\ UNCHANGED ui
    \/ \E trans_id \in TransIds : delete_transaction(trans_id) /\ UNCHANGED ui

SpecSum == Init /\ [][NextSum]_vars

\* Both tables.
Next ==
    \/ \E category \in BudgetCategories :
          add_transaction("2024-03-05", "Expense", category, "lunch", 1) /\ UNCHANGED ui
    \/ \E trans_id \in TransIds : delete_transaction(trans_id) /\ UNCHANGED ui
    \/ \E category \in BudgetCategories, amount \in BudgetAmounts :
          add_budget(category, amount) /\ UNCHANGED ui
    \/ \E budget_id \in BudgetIds : delete_budget(budget_id) /\ UNCHANGED ui

Spec == Init /\ [][Next]_vars

\* Both tables, the program started again at any time.
NextRestart ==
    \/ Next
    \/ create_tables /\ UNCHANGED ui

SpecRestart == Init /\ [][NextRestart]_vars

\* Both tables, the categories varying.
NextCategories ==
    \/ \E category \in TransactionCategories :
          add_transaction("2024-03-05", "Expense", category, "", 1) /\ UNCHANGED ui
    \/ \E trans_id \in TransIds : delete_transaction(trans_id) /\ UNCHANGED ui
    \/ \E category \in BudgetCategories : add_budget(category, 1) /\ UNCHANGED ui
    \/ \E budget_id \in BudgetIds : delete_budget(budget_id) /\ UNCHANGED ui

SpecCategories == Init /\ [][NextCategories]_vars

\* The window: every transaction goes through the handlers of FinanceApp.
NextApp ==
    \/ \E entry_date \in EntryDates, entry_category \in EntryCategories,
          entry_amount \in EntryAmounts :
          FinanceApp_add_transaction(entry_date, "Expense", entry_category,
                                     "lunch", entry_amount)
    \/ \E selected \in 0..MaxTx, confirm \in BOOLEAN :
          delete_selected_transaction(selected, confirm)

SpecApp == Init /\ [][NextApp]_vars

(* ------------------------ what the claims use -------------------------- *)
Range(s) == {s[i] : i \in 1..Len(s)}

Ids(table) == {r.id : r \in table}

\* the row that the arguments of the latest add_transaction describe
AddedRow(call) ==
    [id |-> call.rowid, date |-> call.args[1], type |-> call.args[2],
     category |-> call.args[3], description |-> call.args[4], amount |-> call.args[5]]

\* date descending by text comparison, identifier descending among equal dates
ListedInOrder(list) ==
    \A i, j \in 1..Len(list) :
        i < j => \/ TextLess(list[j].date, list[i].date)
                 \/ (list[i].date = list[j].date /\ list[i].id > list[j].id)

RECURSIVE SumById(_)
\* the floating point sum of the amounts of a set of rows, in identifier order
SumById(rows) ==
    IF rows = {} THEN 0
    ELSE LET m == CHOOSE x \in rows : \A y \in rows : y.id <= x.id
         IN  FRound(SumById(rows \ {m}) + m.amount)

(* ------------------------------- C1 ------------------------------------ *)
C1_Step ==
    \A before \in {get_transactions(Self)}, after \in {get_transactions(SelfAfter)} :
        /\ ListedInOrder(before) /\ ListedInOrder(after)
        /\ (issuedTx = {} => before = <<>>)
        /\ (transactions' = {} => after = <<>>)
        /\ last'.op = "add_transaction" =>
              /\ Range(after) = Range(before) \cup {AddedRow(last')}
              /\ Len(after) = Len(before) + 1
        /\ last'.op = "delete_transaction" =>
              /\ Range(after) = {r \in Range(before) : r.id # last'.args[1]}
              /\ Len(after) = Cardinality(Range(after))

\* C1: get_transactions returns the empty sequence on an empty store; each
\* add_transaction adds exactly the new row to what it returns and each
\* delete_transaction removes exactly the rows of that identifier, so it
\* always returns the transactions added and not since deleted, each once;
\* and it is ordered by date descending (text comparison), then by
\* identifier descending.
C1_ListsLiveRowsInOrder == [][C1_Step]_vars

\* Three rows were added, one was deleted, the two listed share their date.
C1_Witness ==
    /\ last.op = "delete_transaction" /\ last.rowcount = 1
    /\ txSeq = 3
    /\ Len(get_transactions(Self)) = 2
    /\ get_transactions(Self)[1].date = get_transactions(Self)[2].date

(* ------------------------------- C2 ------------------------------------ *)
\* C2: get_summary returns (totalIncome, totalExpense, netBalance), the two
\* totals being the floating point sums of the Income and of the Expense
\* amounts, netBalance the floating point difference totalIncome -
\* totalExpense, and all three 0 on the empty store.
C2_SummaryIsTheSums ==
    LET s == get_summary(Self)
    IN  /\ s[1] = SumById({r \in transactions : r.type = "Income"})
        /\ s[2] = SumById({r \in transactions : r.type = "Expense"})
        /\ s[3] = FRound(s[1] - s[2])
        /\ (transactions = {} => s = <<0, 0, 0>>)

\* Income and expenses are both stored and the expenses exceed the income.
C2_Witness ==
    /\ \E r \in transactions : r.type = "Income" /\ r.amount > 0
    /\ Cardinality({r \in transactions : r.type = "Expense"}) = 2
    /\ get_summary(Self)[3] < 0

(* ------------------------------- C3 ------------------------------------ *)
\* C3: no two budget rows have the same category, and right after
\* add_budget(c, a) there is exactly one budget row of category c, of amount a.
C3_OneBudgetPerCategory ==
    /\ \A b1, b2 \in budgets : b1.category = b2.category => b1 = b2
    /\ last.op = "add_budget" =>
          /\ Cardinality({b \in budgets : b.category = last.args[1]}) = 1
          /\ \A b \in budgets : b.category = last.args[1] => b.amount = last.args[2]

\* add_budget has just run on a category whose earlier row, of another amount,
\* it replaced: two identifiers were issued, one row is left.
C3_Witness ==
    /\ last.op = "add_budget" /\ last.rowid = 2 /\ last.args[2] = 2
    /\ Cardinality(budgets) = 1
    /\ get_budgets(Self)[1].amount = 2

(* ------------------------------- C4 ------------------------------------ *)
\* C4: when add_transaction is followed by delete_transaction of the
\* identifier it assigned, get_transactions returns the sequence it returned
\* before the add.
C4_AddThenDeleteRestores ==
    [][(/\ last.op = "add_transaction"
        /\ last'.op = "delete_transaction"
        /\ last'.args = <<last.rowid>>) => get_transactions(SelfAfter) = listed]_vars

\* The row of the identifier assigned last has just been deleted and other
\* rows are listed.
C4_Witness ==
    /\ last.op = "delete_transaction" /\ last.rowcount = 1
    /\ last.args = <<txSeq>>
    /\ Len(get_transactions(Self)) = 2

(* ------------------------------- C5 ------------------------------------ *)
C5_Step ==
    /\ (/\ last'.op = "delete_transaction"
        /\ last'.args[1] \notin Ids(transactions)) =>
            ~last'.raised /\ transactions' = transactions /\ budgets' = budgets
    /\ (/\ last'.op = "delete_budget"
        /\ last'.args[1] \notin Ids(budgets)) =>
            ~last'.raised /\ transactions' = transactions /\ budgets' = budgets

\* C5: delete_transaction and delete_budget on an identifier that matches no
\* row raise nothing and leave both tables as they were.
C5_DeleteOfAbsentIdIsNoOp == [][C5_Step]_vars

\* A delete that matched no row has just run on two tables that hold rows.
C5_Witness ==
    /\ last.op \in {"delete_transaction", "delete_budget"}
    /\ last.rowcount = 0 /\ ~last.raised
    /\ transactions # {} /\ budgets # {}

(* ------------------------------- C6 ------------------------------------ *)
RECURSIVE FloatSum(_)
\* the floating point sum of a sequence of numbers, added from left to right
FloatSum(numbers) ==
    IF numbers = <<>> THEN 0
    ELSE FRound(FloatSum(SubSeq(numbers, 1, Len(numbers) - 1)) + numbers[Len(numbers)])

ExpensesOf(category) ==
    {r \in transactions : r.type = "Expense" /\ r.category = category}

\* C6: get_expenses_by_category returns one entry per category that has an
\* Expense transaction, its total the sum of that category's Expense amounts,
\* the entries by total descending, and the returned totals add up to the
\* totalExpense of get_summary.
C6_BreakdownAddsUpToTotalExpense ==
    LET e == get_expenses_by_category(Self)
    IN  /\ {e[i].category : i \in 1..Len(e)} =
              {r.category : r \in {x \in transactions : x.type = "Expense"}}
        /\ \A i, j \in 1..Len(e) : e[i].category = e[j].category => i = j
        /\ \A i \in 1..Len(e) : e[i].total = SumById(ExpensesOf(e[i].category))
        /\ \A i, j \in 1..Len(e) : i < j => e[i].total >= e[j].total
        /\ FloatSum([i \in 1..Len(e) |-> e[i].total]) = get_summary(Self)[2]

(* ------------------------------- C7 ------------------------------------ *)
\* C7 as stated: no entry of get_expenses_by_category has total zero,
\* whatever amounts add_transaction was given.
C7_NoZeroTotal ==
    \A i \in 1..Len(get_expenses_by_category(Self)) :
        get_expenses_by_category(Self)[i].total # 0

\* C7 as amended: every entry of get_expenses_by_category is of a category
\* that has an Expense transaction, and its total is greater than zero
\* whenever every Expense amount of that category is.
C7_NoEntryWithoutExpense ==
    LET e == get_expenses_by_category(Self)
    IN  \A i \in 1..Len(e) :
            /\ ExpensesOf(e[i].category) # {}
            /\ (\A r \in ExpensesOf(e[i].category) : r.amount > 0) => e[i].total > 0

\* One category has only Income and is left out, another has positive
\* expenses and is listed.
C7_Witness ==
    /\ \E r \in transactions : r.type = "Income" /\ ExpensesOf(r.category) = {}
    /\ Len(get_expenses_by_category(Self)) = 1
    /\ get_expenses_by_category(Self)[1].total > 0

(* ------------------------------- C8 ------------------------------------ *)
\* month is the prefix of date of 7 characters (of all of it, when shorter)
IsMonthOf(month, date) ==
    /\ Len(month) = Min(7, Len(date))
    /\ SubSeq(date, 1, Len(month)) = month

InMonth(month, t) == {r \in transactions : r.type = t /\ IsMonthOf(month, r.date)}

\* C8: get_monthly_summary returns exactly one entry per 7-character date
\* prefix that occurs, with the sum of that month's Income amounts and the sum
\* of that month's Expense amounts (0 when there is none), by month ascending.
C8_OneEntryPerMonth ==
    LET m == get_monthly_summary(Self)
    IN  /\ \A r \in transactions :
              Cardinality({i \in 1..Len(m) : IsMonthOf(m[i].month, r.date)}) = 1
        /\ \A i \in 1..Len(m) : \E r \in transactions : IsMonthOf(m[i].month, r.date)
        /\ \A i \in 1..Len(m) :
              /\ m[i].income_total = SumById(InMonth(m[i].month, "Income"))
              /\ m[i].expense_total = SumById(InMonth(m[i].month, "Expense"))
        /\ \A i, j \in 1..Len(m) : i < j => TextLess(m[i].month, m[j].month)

\* 2024-01-15 and 2024-01-28 share the first of two buckets, which has
\* income and no expense.
C8_Witness ==
    /\ {r.date : r \in transactions} = Dates
    /\ Len(get_monthly_summary(Self)) = 2
    /\ get_monthly_summary(Self)[1].month = "2024-01"
    /\ get_monthly_summary(Self)[1].income_total > 2
    /\ get_monthly_summary(Self)[1].expense_total = 0

(* ------------------------------- C9 ------------------------------------ *)
C9_Step ==
    /\ last'.op = "add_transaction" =>
          /\ \A i \in issuedTx : last'.rowid > i
          /\ last'.rowid \in Ids(transactions')
    /\ \A r1, r2 \in transactions' : r1.id = r2.id => r1 = r2

\* C9: every add_transaction assigns an identifier greater than every
\* identifier assigned before, deleted ones included, and no two stored
\* transactions share an identifier.
C9_IdsGrow == [][C9_Step]_vars

\* add_transaction has just run after the row of the largest identifier so
\* far had been deleted.
C9_Witness ==
    /\ last.op = "add_transaction" /\ last.rowid = 3
    /\ Ids(transactions) = {1, 3}

(* ------------------------------- C10 ----------------------------------- *)
C10_Step ==
    /\ last'.op = "add_transaction" =>
          /\ \A r \in transactions : r \in transactions'
          /\ budgets' = budgets
    /\ last'.op = "delete_transaction" =>
          /\ \A r \in transactions : r.id # last'.args[1] => r \in transactions'
          /\ transactions' \subseteq transactions
          /\ budgets' = budgets
    /\ last'.op \in {"add_budget", "delete_budget"} => transactions' = transactions

\* C10: add_transaction and delete_transaction leave every other transaction
\* and the budgets table as they were; add_budget and delete_budget leave the
\* transactions table as it was.
C10_WritesTouchTheirTargetOnly == [][C10_Step]_vars

\* The only budget has just been deleted while every category has
\* transactions.
C10_Witness ==
    /\ last.op = "delete_budget" /\ last.rowcount = 1
    /\ budgets = {}
    /\ {r.category : r \in transactions} = BudgetCategories

(* ------------------------------- C11 ----------------------------------- *)
\* a date written YYYY-MM-DD: four, two and two digits, a day of the calendar
IsIsoDate(s) ==
    /\ Len(s) = 10
    /\ \A i \in {1, 2, 3, 4, 6, 7, 9, 10} : SubSeq(s, i, i) \in Digits
    /\ SubSeq(s, 5, 5) = "-" /\ SubSeq(s, 8, 8) = "-"
    /\ ParseInt(SubSeq(s, 1, 4)) >= 1
    /\ ParseInt(SubSeq(s, 6, 7)) \in 1..12
    /\ ParseInt(SubSeq(s, 9, 10)) \in
           1..DaysInMonth(ParseInt(SubSeq(s, 1, 4)), ParseInt(SubSeq(s, 6, 7)))

\* a number greater than zero: digits, not all of them 0, with an optional +
IsPositiveNumber(s) ==
    LET digits == IF SubSeq(s, 1, 1) = "+" THEN SubSeq(s, 2, Len(s)) ELSE s
    IN  /\ Len(digits) > 0
        /\ \A i \in 1..Len(digits) : SubSeq(digits, i, i) \in Digits
        /\ \E i \in 1..Len(digits) : SubSeq(digits, i, i) # "0"

\* the form as the claim wants it filled in
WellFormed(entries) ==
    /\ IsIsoDate(Strip(entries[1]))
    /\ Strip(entries[3]) # ""
    /\ Strip(entries[5]) # "" /\ IsPositiveNumber(Strip(entries[5]))

\* a step of the Add Transaction button
AddClicked ==
    /\ ui'.messagebox # <<>>
    /\ ui'.messagebox[1] \in {"showerror", "showinfo"}
    /\ <<ui, last>>' # <<ui, last>>

\* C11: with every transaction added through the handler, every stored
\* amount is greater than zero, and a form whose amount is empty, not a
\* number or not positive, or whose date or category is empty or malformed,
\* is answered with an error message, no Storage Layer call is made and the
\* store is left as it was.
C11_BadInputNeverReachesStorage ==
    [][/\ \A r \in transactions' : r.amount > 0
       /\ (AddClicked /\ ~WellFormed(ui'.entries)) =>
              /\ ui'.messagebox[1] = "showerror"
              /\ last' = last
              /\ transactions' = transactions /\ txSeq' = txSeq]_vars

(* ------------------------------- C12 ----------------------------------- *)
\* the category texts of the rows of a table
CategoriesOf(table) == {r.category : r \in table}

UpperChar(ch) ==
    IF \E k \in 1..Len(Lowers) : SubSeq(Lowers, k, k) = ch
    THEN LET k == CHOOSE k \in 1..Len(Lowers) : SubSeq(Lowers, k, k) = ch
         IN  SubSeq(Uppers, k, k)
    ELSE ch

IsLetter(ch) == ch # "" /\ (UpperChar(ch) # ch \/ LowerChar(ch) # ch)

\* title case: a letter is upper case exactly when no letter comes before it
IsTitleCase(s) ==
    \A i \in 1..Len(s) :
        IsLetter(SubSeq(s, i, i)) =>
            IF i > 1 /\ IsLetter(SubSeq(s, i - 1, i - 1))
            THEN SubSeq(s, i, i) = LowerChar(SubSeq(s, i, i))
            ELSE SubSeq(s, i, i) = UpperChar(SubSeq(s, i, i))

\* C13: every string get_all_categories returns is in title case, and
\* categories that differ in letter case only come back as one entry.
C13_TitleCasedOncePerCategory ==
    \A result \in get_all_categories(Self) :
        /\ \A i \in 1..Len(result) : IsTitleCase(result[i])
        /\ \A i, j \in 1..Len(result) :
              i # j => Lower(result[i]) # Lower(result[j])

(* ------------------------------- C14 ----------------------------------- *)
\* C14: starting the program on a store that holds data, however often,
\* leaves every transaction and budget row as it was, and get_transactions
\* and get_budgets return after the start what they returned before it.
C14_StartUpKeepsTheRows ==
    [][last'.op = "create_tables" =>
          /\ transactions' = transactions
          /\ budgets' = budgets
          /\ get_transactions(SelfAfter) = get_transactions(Self)
          /\ get_budgets(SelfAfter) = get_budgets(Self)]_vars

\* the program just started on a store with a transaction and two budgets
C14_Witness ==
    /\ last.op = "create_tables"
    /\ listed = <<>>
    /\ Len(get_transactions(Self)) >= 1
    /\ Len(get_budgets(Self)) >= 2

(* ------------------------------- C15 ----------------------------------- *)
\* the budget rows of a category
BudgetsOf(table, category) == {b \in table : b.category = category}

\* C15: add_budget on a category that has a budget removes the row there
\* was and leaves one row for the category, under an identifier that is new
\* and greater than every budget identifier assigned before; delete_budget
\* of an identifier so replaced deletes nothing, the new budget stays; and
\* no add_budget ever assigns an identifier assigned before.
C15_ReplacedBudgetGetsAFreshId ==
    [][/\ last'.op = "add_budget" =>
              /\ last'.rowid \notin issuedB
              /\ \A old \in BudgetsOf(budgets, last'.args[1]) :
                    /\ old.id \notin Ids(budgets')
                    /\ old.id \in replacedB'
                    /\ BudgetsOf(budgets', old.category) =
                          {[id |-> last'.rowid, category |-> old.category,
                            amount |-> last'.args[2]]}
                    /\ \A id \in issuedB : last'.rowid > id
       /\ (last'.op = "delete_budget" /\ last'.args[1] \in replacedB) =>
              /\ budgets' = budgets
              /\ last'.rowcount = 0]_vars

\* delete_budget of the identifier a budget had before it was replaced has
\* just run, and the budget that replaced it is there
C15_Witness ==
    /\ last.op = "delete_budget"
    /\ last.args[1] \in replacedB
    /\ \E b \in budgets : b.id > last.args[1] /\ b.category = "Food" /\ b.amount = 2

====
